---- MODULE Spec2Model ----
(***************************************************************************)
(* DoctorAi: the disease scorer (predictor.py), the symptom extractor      *)
(* (utils.py) and the request handlers with their persistence retry loops  *)
(* (app.py, models.py).                                                     *)
(*                                                                         *)
(* Probabilities are kept in tenths: 1000 stands for 100.0.                *)
(* A Python string is atomic here, so a vocabulary string is kept together *)
(* with the sequence of its space-separated words, and a joined window of  *)
(* tokens is the sequence of those tokens.                                 *)
(***************************************************************************)
EXTENDS Integers, Sequences, FiniteSets, TLC

VARIABLES
  symptoms,        \* predict_disease: the argument list, as runs <<symptom, n>>
  top_n,           \* predict_disease: the argument top_n
  disease_score,   \* predict_disease: the dict, as its items in insertion order
  results,         \* predict_disease: the local list results, after the sort
  score_result,    \* predict_disease: the returned list
  score_outcome,   \* predict_disease: "pending", "returned" or "raised"
  selected_symptoms,  \* preprocess_symptoms: first argument
  additional_text,    \* preprocess_symptoms: second argument, as its raw words
  words,              \* extract_symptoms_from_text: the filtered, lemmatized tokens
  phrases,            \* extract_symptoms_from_text: every phrase the window loop built
  single_symptoms,    \* extract_symptoms_from_text: recognized_symptoms after the first loop
  text_symptoms,      \* extract_symptoms_from_text: the returned set
  processed,          \* preprocess_symptoms: the returned symptoms
  extract_pc,         \* "call" before preprocess_symptoms ran, "done" after
  route,              \* the handler of the current request: diagnose, history, detail
  app_pc,             \* "idle", "save" (diagnose's loop), "read" (a read loop), "done"
  response,           \* what the handler returned
  processed_symptoms, \* diagnose: the local processed_symptoms, as a set
  predicted_diseases, \* diagnose: the local predicted_diseases
  diag_results,       \* diagnose: the local results (disease and probability)
  retry_count,        \* the local retry_count of the running loop
  saved_to_db,        \* diagnose: the local saved_to_db
  attempts,           \* passes through the try block made by this request
  commits,            \* db.session.commit() calls of this request that succeeded
  late_attempts,      \* passes begun after a commit of this request succeeded
  db,                 \* the committed Diagnosis rows, each with its DiagnosisResult rows
  rows_before,        \* Len(db) when the current request began
  next_id,            \* the next value of the diagnosis.id sequence
  session,            \* the Flask session: diagnosis_id and diagnosis_results
  detail_id,          \* diagnosis_detail: the argument diagnosis_id
  requests            \* requests begun so far

vars == <<symptoms, top_n, disease_score, results, score_result, score_outcome,
          selected_symptoms, additional_text, words, phrases, single_symptoms,
          text_symptoms, processed, extract_pc,
          route, app_pc, response, processed_symptoms, predicted_diseases,
          diag_results, retry_count, saved_to_db, attempts, commits,
          late_attempts, db, rows_before, next_id, session, detail_id, requests>>

scoreVars == <<symptoms, top_n, disease_score, results, score_result,
               score_outcome>>
extractVars == <<selected_symptoms, additional_text, words, phrases,
                 single_symptoms, text_symptoms, processed, extract_pc>>
appVars == <<route, app_pc, response, processed_symptoms, predicted_diseases,
             diag_results, retry_count, saved_to_db, attempts, commits,
             late_attempts, db, rows_before, next_id, session, detail_id, requests>>

(***************************************************************************)
(* Bounds of the model.                                                    *)
(***************************************************************************)
\* runs in the list handed to predict_disease
MaxRuns == 3
\* the long run: one symptom repeated BigRep times
BigRep == 2001
\* top_n ranges over -MaxTopN .. MaxTopN
MaxTopN == 3
\* raw words in the free text
MaxTextLen == 5
\* requests handled one after the other
MaxRequests == 2

(***************************************************************************)
(* Reference data (data/symptoms.py): the association table of the         *)
(* specification's example, with one more symptom.                         *)
(***************************************************************************)
symptom_disease_map ==
  [s \in {"fever", "cough", "rhinorrhea"} |->
     CASE s = "fever" -> <<"flu", "malaria">>
       [] s = "cough" -> <<"flu", "cold">>
       [] OTHER -> <<"cold">>]

\* the symptom strings a caller passes; "bogus" is in no table
ScoreSymptoms == {"fever", "cough", "rhinorrhea", "bogus"}

\* a run <<s, n>> is n consecutive occurrences of s in the Python list
Reps == {1, BigRep}

RunLists ==
  UNION {[1..n -> ScoreSymptoms \X Reps] : n \in 0..MaxRuns}

(***************************************************************************)
(* predict_disease                                                         *)
(***************************************************************************)
\* index of disease d among the dict's items, 0 when it is no key
KeyIndex(score, d) ==
  IF \E i \in 1..Len(score) : score[i].disease = d
    THEN CHOOSE i \in 1..Len(score) : score[i].disease = d
    ELSE 0

\* one disease of the inner loop, for n occurrences of the symptom
CountDisease(score, d, n) ==
  IF KeyIndex(score, d) = 0
    THEN Append(score, [disease |-> d, score |-> n])
    ELSE [score EXCEPT ![KeyIndex(score, d)].score = @ + n]

RECURSIVE CountDiseases(_, _, _)
CountDiseases(score, diseases, n) ==
  IF diseases = <<>> THEN score
  ELSE CountDiseases(CountDisease(score, Head(diseases), n), Tail(diseases), n)

RECURSIVE Accumulate(_, _)
Accumulate(score, runs) ==
  IF runs = <<>> THEN score
  ELSE LET symptom == Head(runs)[1]
           n == Head(runs)[2]
       IN IF symptom \in DOMAIN symptom_disease_map
            THEN Accumulate(CountDiseases(score, symptom_disease_map[symptom], n),
                            Tail(runs))
            ELSE Accumulate(score, Tail(runs))

RECURSIVE MaxScore(_)
MaxScore(score) ==
  IF Len(score) = 1 THEN score[1].score
  ELSE LET m == MaxScore(Tail(score))
       IN IF score[1].score >= m THEN score[1].score ELSE m

\* round(x, 1) of x = 100 * n / d, in tenths, ties to even
RoundTenths(n, d) ==
  LET q == (1000 * n) \div d
      r == (1000 * n) % d
  IN IF 2 * r > d \/ (2 * r = d /\ q % 2 = 1) THEN q + 1 ELSE q

\* Probability with a fault: integer division, score // max_score * 100
ProbabilityFloorDiv(score, max_score) ==
  (score \div max_score) * 1000

\* round((score / max_score) * 100, 1)
Probability(score, max_score) ==
  RoundTenths(score, max_score)

Probabilities(score) ==
  [i \in 1..Len(score) |->
     [disease |-> score[i].disease,
      probability |-> Probability(score[i].score, MaxScore(score))]]

\* InsertSorted with a fault: an entry goes before the entries of equal
\* probability, as an unstable sort may place it
InsertBeforeEqual(sorted, e) ==
  LET k == Cardinality({i \in 1..Len(sorted) : sorted[i].probability > e.probability})
  IN SubSeq(sorted, 1, k) \o <<e>> \o SubSeq(sorted, k + 1, Len(sorted))

\* list.sort(key=probability, reverse=True) is stable: an entry goes after
\* the entries of greater or equal probability that precede it
InsertSorted(sorted, e) ==
  LET k == Cardinality({i \in 1..Len(sorted) : sorted[i].probability >= e.probability})
  IN SubSeq(sorted, 1, k) \o <<e>> \o SubSeq(sorted, k + 1, Len(sorted))

RECURSIVE SortDescending(_, _)
SortDescending(sorted, rest) ==
  IF rest = <<>> THEN sorted
  ELSE SortDescending(InsertSorted(sorted, Head(rest)), Tail(rest))

\* results[:n]
SliceTo(list, n) ==
  IF n >= 0
    THEN SubSeq(list, 1, IF n < Len(list) THEN n ELSE Len(list))
    ELSE SubSeq(list, 1, IF Len(list) + n > 0 THEN Len(list) + n ELSE 0)

\* the list results after results.sort(...); empty when nothing was counted
SortedResults(runs) ==
  LET score == Accumulate(<<>>, runs)
  IN IF score = <<>> THEN <<>>
     ELSE SortDescending(<<>>, Probabilities(score))

PredictDisease(runs, n) ==
  IF Accumulate(<<>>, runs) = <<>> THEN <<>>
  ELSE SliceTo(SortedResults(runs), n)

ScoreInit ==
  /\ symptoms \in RunLists
  /\ top_n \in (0 - MaxTopN)..MaxTopN
  /\ disease_score = <<>>
  /\ results = <<>>
  /\ score_result = <<>>
  /\ score_outcome = "pending"

ExtractIdle ==
  /\ selected_symptoms = <<>>
  /\ additional_text = <<>>
  /\ words = <<>>
  /\ phrases = {}
  /\ single_symptoms = {}
  /\ text_symptoms = {}
  /\ processed = {}
  /\ extract_pc = "idle"

\* the call predict_disease(symptoms, top_n): it has no argument check and
\* no raise statement, so every call returns
CallPredictDisease ==
  /\ score_outcome = "pending"
  /\ disease_score' = Accumulate(<<>>, symptoms)
  /\ results' = SortedResults(symptoms)
  /\ score_result' = PredictDisease(symptoms, top_n)
  /\ score_outcome' = "returned"
  /\ UNCHANGED <<symptoms, top_n>>
  /\ UNCHANGED extractVars
  /\ UNCHANGED appVars

\* the state of the web application before its first request
AppIdle ==
  /\ route = "none"
  /\ app_pc = "idle"
  /\ response = "none"
  /\ processed_symptoms = {}
  /\ predicted_diseases = <<>>
  /\ diag_results = <<>>
  /\ retry_count = 0
  /\ saved_to_db = FALSE
  /\ attempts = 0
  /\ commits = 0
  /\ late_attempts = 0
  /\ db = <<>>
  /\ rows_before = 0
  /\ next_id = 1
  /\ session = [diagnosis_id |-> 0, has_results |-> FALSE, diagnosis_results |-> <<>>]
  /\ detail_id = 0
  /\ requests = 0

ScoreSpecInit == ScoreInit /\ ExtractIdle /\ AppIdle

SpecScore == ScoreSpecInit /\ [][CallPredictDisease]_vars

(***************************************************************************)
(* Claims about predict_disease, checked under SpecScore.                  *)
(***************************************************************************)
Returned == score_outcome = "returned"

NonIncreasing(list) ==
  \A i, j \in 1..Len(list) : i < j => list[i].probability >= list[j].probability

\* C1: for every symptom list and every integer top_n, the returned list has
\* at most top_n entries and its probabilities are non-increasing.
C1_LengthAtMostTopN ==
  Returned => Len(score_result) <= top_n /\ NonIncreasing(score_result)

\* the greatest raw count of the call, read off the dict
IsMaxCount(m) ==
  /\ \E i \in 1..Len(disease_score) : disease_score[i].score = m
  /\ \A i \in 1..Len(disease_score) : disease_score[i].score <= m

ProbabilityOf(d) ==
  LET i == CHOOSE k \in 1..Len(results) : results[k].disease = d
  IN results[i].probability

\* C2 as stated: every disease with the maximum raw count has probability
\* 100.0 and every computed probability lies in (0, 100].
C2_ProbabilityPositive ==
  Returned =>
    \A i \in 1..Len(disease_score) :
      LET e == disease_score[i]
      IN /\ \E k \in 1..Len(results) : results[k].disease = e.disease
         /\ IsMaxCount(e.score) => ProbabilityOf(e.disease) = 1000
         /\ ProbabilityOf(e.disease) > 0
         /\ ProbabilityOf(e.disease) <= 1000

\* C2 amended: every disease with the maximum raw count has probability
\* 100.0, every computed probability lies in [0, 100], and it is positive
\* whenever the maximum raw count is less than 2000 times the disease's count.
C2_ProbabilityRange ==
  Returned =>
    /\ Len(results) = Len(disease_score)
    /\ \A i \in 1..Len(disease_score) :
         LET e == disease_score[i]
         IN /\ \E k \in 1..Len(results) : results[k].disease = e.disease
            /\ e.score >= 1
            /\ IsMaxCount(e.score) => ProbabilityOf(e.disease) = 1000
            /\ ProbabilityOf(e.disease) >= 0
            /\ ProbabilityOf(e.disease) <= 1000
            /\ \A k \in 1..Len(disease_score) :
                 (IsMaxCount(disease_score[k].score)
                    /\ disease_score[k].score < 2000 * e.score)
                   => ProbabilityOf(e.disease) > 0

\* C2 witness: a call that scored one disease 100.0 and another 50.0
C2_Witness ==
  /\ Returned
  /\ \E i, j \in 1..Len(results) :
       results[i].probability = 1000 /\ results[j].probability = 500

\* rank of the first time disease d is met: symptom position, then the
\* position in that symptom's disease list
FirstEncounter(d) ==
  LET met == {<<i, k>> \in (1..Len(symptoms)) \X (1..9) :
                /\ symptoms[i][1] \in DOMAIN symptom_disease_map
                /\ k <= Len(symptom_disease_map[symptoms[i][1]])
                /\ symptom_disease_map[symptoms[i][1]][k] = d}
      first == CHOOSE p \in met : \A q \in met : 10 * p[1] + p[2] <= 10 * q[1] + q[2]
  IN 10 * first[1] + first[2]

\* C3: entries of equal probability appear in first-encounter order, and the
\* cut to top_n keeps the earliest of the tied entries.
C3_TiesInEncounterOrder ==
  Returned =>
    /\ \A i, j \in 1..Len(score_result) :
         (i < j /\ score_result[i].probability = score_result[j].probability)
           => FirstEncounter(score_result[i].disease)
                < FirstEncounter(score_result[j].disease)
    /\ \A i \in 1..Len(score_result) : \A k \in 1..Len(disease_score) :
         LET d == disease_score[k].disease
         IN (ProbabilityOf(d) = score_result[i].probability
               /\ FirstEncounter(d) < FirstEncounter(score_result[i].disease))
              => \E j \in 1..Len(score_result) : score_result[j].disease = d

\* C3 witness: two tied diseases, the cut keeps one and drops the other
C3_Witness ==
  /\ Returned
  /\ \E i \in 1..Len(score_result) : \E k \in 1..Len(results) :
       /\ results[k].probability = score_result[i].probability
       /\ \A j \in 1..Len(score_result) : score_result[j].disease # results[k].disease

\* C4: a negative top_n raises and returns no list; every call with
\* top_n >= 0 returns a list.
C4_NegativeTopNRaises ==
  score_outcome # "pending" =>
    /\ top_n < 0 => score_outcome = "raised"
    /\ top_n >= 0 => score_outcome = "returned"

(***************************************************************************)
(* Reference data (data/symptoms.py) and the NLTK tables, for the words of *)
(* the model: the vocabulary in its order, the synonym lists, the words of *)
(* each vocabulary string as it is written, str.lower, the English stop    *)
(* words and WordNetLemmatizer.lemmatize.                                  *)
(***************************************************************************)
all_symptoms == <<"fever", "cough", "rhinorrhea", "coryza", "malaise">>

\* "cough" has no entry: symptom_synonyms.get(symptom, []) is [] for it
symptom_synonyms ==
  [s \in {"fever", "rhinorrhea", "coryza", "malaise"} |->
     CASE s = "fever" -> <<"Pyrexia", "temperature">>
       [] s = "rhinorrhea" -> <<"runny nose">>
       [] s = "coryza" -> <<"runny nose", "temperature", "runny nose temperature fever">>
       [] OTHER -> <<"fever runny nose temperature fever">>]

\* the space-separated words of a vocabulary string
Spell(str) ==
  CASE str = "runny nose" -> <<"runny", "nose">>
    [] str = "runny nose temperature fever" -> <<"runny", "nose", "temperature", "fever">>
    [] str = "fever runny nose temperature fever" ->
         <<"fever", "runny", "nose", "temperature", "fever">>
    [] OTHER -> <<str>>

\* str.lower() of one word
LowerWord(w) ==
  CASE w = "Fever" -> "fever"
    [] w = "Pyrexia" -> "pyrexia"
    [] OTHER -> w

stop_words == {"the"}

\* lemmatizer.lemmatize(word)
Lemmatize(w) ==
  IF w = "noses" THEN "nose" ELSE w

\* the free text is given by its raw words; "," is a punctuation character
RawWords == {"Fever", "pyrexia", "temperature", "runny", "noses", "the", ","}

Texts == UNION {[1..n -> RawWords] : n \in 0..MaxTextLen}

\* the lists of selected symptoms a form submits; "bogus" is in no table
SelectedLists == {<<>>, <<"bogus", "cough">>}

(***************************************************************************)
(* extract_symptoms_from_text and preprocess_symptoms                      *)
(***************************************************************************)
RECURSIVE Tokenize(_)
\* text.lower(), re.sub(r'[^\w\s]', ' ', text), nltk.word_tokenize(text)
Tokenize(text) ==
  IF text = <<>> THEN <<>>
  ELSE IF Head(text) = "," THEN Tokenize(Tail(text))
  ELSE <<LowerWord(Head(text))>> \o Tokenize(Tail(text))

RECURSIVE FilteredWords(_)
\* [lemmatizer.lemmatize(word) for word in words if word not in stop_words]
FilteredWords(tokens) ==
  IF tokens = <<>> THEN <<>>
  ELSE IF Head(tokens) \in stop_words THEN FilteredWords(Tail(tokens))
  ELSE <<Lemmatize(Head(tokens))>> \o FilteredWords(Tail(tokens))

\* symptom.lower(), as its words
LowerSpell(symptom) ==
  [i \in 1..Len(Spell(symptom)) |-> LowerWord(Spell(symptom)[i])]

\* symptom_synonyms.get(symptom, [])
SynonymsOf(symptom) ==
  IF symptom \in DOMAIN symptom_synonyms THEN symptom_synonyms[symptom] ELSE <<>>

\* phrase == symptom.lower() or phrase in symptom_synonyms.get(symptom, [])
Matches(phrase, symptom) ==
  \/ phrase = LowerSpell(symptom)
  \/ \E k \in 1..Len(SynonymsOf(symptom)) : phrase = Spell(SynonymsOf(symptom)[k])

\* SymptomFor with a fault: recognized_symptoms.add(word), the matched text
\* instead of the symptom
MatchedWordFor(phrase) ==
  IF \E n \in 1..Len(all_symptoms) : Matches(phrase, all_symptoms[n])
    THEN {phrase[1]}
    ELSE {}

\* the inner loop over all_symptoms with its break: the first symptom that
\* matches, as a set of at most one name
SymptomFor(phrase) ==
  LET hits == {n \in 1..Len(all_symptoms) : Matches(phrase, all_symptoms[n])}
  IN IF hits = {} THEN {}
     ELSE {all_symptoms[CHOOSE n \in hits : \A m \in hits : n <= m]}

\* WindowLengths with a fault: range(i+1, min(i+6, len(words)+1))
WindowLengthsUpTo5(i, n) ==
  1..(IF 5 < n - i + 1 THEN 5 ELSE n - i + 1)

\* range(i+1, min(i+5, len(words)+1)): the lengths j - i of the windows
\* that start at the word of (1-based) position i, among n words
WindowLengths(i, n) ==
  1..(IF 4 < n - i + 1 THEN 4 ELSE n - i + 1)

\* every ' '.join(words[i:j]) the second loop builds
WindowPhrases(ws) ==
  {SubSeq(ws, i, i + len - 1) : <<i, len>> \in
     {p \in (1..Len(ws)) \X (1..Len(ws)) : p[2] \in WindowLengths(p[1], Len(ws))}}

SingleWordSymptoms(ws) ==
  UNION {SymptomFor(<<ws[i]>>) : i \in 1..Len(ws)}

MultiWordSymptoms(ws) ==
  UNION {SymptomFor(phrase) : phrase \in WindowPhrases(ws)}

ExtractSymptomsFromText(text) ==
  LET ws == FilteredWords(Tokenize(text))
  IN SingleWordSymptoms(ws) \cup MultiWordSymptoms(ws)

\* set(selected_symptoms)
SetOf(list) == {list[i] : i \in 1..Len(list)}

\* the empty string is falsy: the text is then not looked at
PreprocessSymptoms(selected, text) ==
  IF text # <<>> THEN SetOf(selected) \cup ExtractSymptomsFromText(text)
  ELSE SetOf(selected)

ScoreIdle ==
  /\ symptoms = <<>>
  /\ top_n = 3
  /\ disease_score = <<>>
  /\ results = <<>>
  /\ score_result = <<>>
  /\ score_outcome = "idle"

ExtractInit ==
  /\ selected_symptoms \in SelectedLists
  /\ additional_text \in Texts
  /\ words = <<>>
  /\ phrases = {}
  /\ single_symptoms = {}
  /\ text_symptoms = {}
  /\ processed = {}
  /\ extract_pc = "call"

\* the call preprocess_symptoms(selected_symptoms, additional_text)
CallPreprocessSymptoms ==
  /\ extract_pc = "call"
  /\ LET ws == FilteredWords(Tokenize(additional_text))
     IN IF additional_text # <<>>
          THEN /\ words' = ws
               /\ phrases' = WindowPhrases(ws)
               /\ single_symptoms' = SingleWordSymptoms(ws)
               /\ text_symptoms' = ExtractSymptomsFromText(additional_text)
          ELSE UNCHANGED <<words, phrases, single_symptoms, text_symptoms>>
  /\ processed' = PreprocessSymptoms(selected_symptoms, additional_text)
  /\ extract_pc' = "done"
  /\ UNCHANGED <<selected_symptoms, additional_text>>
  /\ UNCHANGED scoreVars
  /\ UNCHANGED appVars

ExtractSpecInit == ExtractInit /\ ScoreIdle /\ AppIdle

SpecExtract == ExtractSpecInit /\ [][CallPreprocessSymptoms]_vars

(***************************************************************************)
(* Claims about the extractor, checked under SpecExtract.                  *)
(***************************************************************************)
Extracted == extract_pc = "done"

Vocabulary == SetOf(all_symptoms)

\* C5 as stated: every symptom preprocess_symptoms returns is in the vocabulary.
C5_AllInVocabulary ==
  Extracted => processed \subseteq Vocabulary

\* C5 amended: every symptom taken from the free text is in the vocabulary,
\* and every returned symptom is a selected symptom or one taken from the text.
C5_TextSymptomsInVocabulary ==
  Extracted =>
    /\ text_symptoms \subseteq Vocabulary
    /\ processed = SetOf(selected_symptoms) \cup text_symptoms

\* C5 witness: a selected name outside the vocabulary is returned next to a
\* symptom recognized in the text
C5_Witness ==
  /\ Extracted
  /\ "bogus" \in processed
  /\ "rhinorrhea" \in text_symptoms

\* the words of a vocabulary string, lowercased
FoldCase(str) ==
  [i \in 1..Len(Spell(str)) |-> LowerWord(Spell(str)[i])]

\* token w equals, ignoring case, the symptom's name or one of its synonyms
EqualsIgnoringCase(w, symptom) ==
  \/ <<LowerWord(w)>> = FoldCase(symptom)
  \/ \E k \in 1..Len(SynonymsOf(symptom)) :
       <<LowerWord(w)>> = FoldCase(SynonymsOf(symptom)[k])

FirstIgnoringCase(w) ==
  LET hits == {n \in 1..Len(all_symptoms) : EqualsIgnoringCase(w, all_symptoms[n])}
  IN IF hits = {} THEN {}
     ELSE {all_symptoms[CHOOSE n \in hits : \A m \in hits : n <= m]}

\* C7: the single-word loop adds, for each token that equals ignoring case a
\* symptom name or a registered synonym, the first such symptom in vocabulary
\* order and nothing else; never the synonym string.
C7_SingleWordIgnoringCase ==
  (Extracted /\ additional_text # <<>>) =>
    /\ single_symptoms = UNION {FirstIgnoringCase(words[i]) : i \in 1..Len(words)}
    /\ single_symptoms \subseteq Vocabulary
    /\ single_symptoms \subseteq text_symptoms

\* the filtered, lemmatized sequence, from the raw words of the text
ExpectedWords ==
  LET lower == [i \in 1..Len(additional_text) |-> LowerWord(additional_text[i])]
      Kept(w) == w # "," /\ w \notin stop_words
      kept == SelectSeq(lower, Kept)
  IN [i \in 1..Len(kept) |-> Lemmatize(kept[i])]

\* the contiguous windows of lo..hi tokens of the sequence ws
Windows(ws, lo, hi) ==
  {SubSeq(ws, a, b) : <<a, b>> \in
     {p \in (1..Len(ws)) \X (1..Len(ws)) : p[2] - p[1] + 1 \in lo..hi}}

\* phrase p occurs as adjacent tokens of ws
Occurs(p, ws) ==
  \E a \in 1..Len(ws) : a + Len(p) - 1 <= Len(ws) /\ SubSeq(ws, a, a + Len(p) - 1) = p

\* the phrases a symptom is compared by: its lowercased name and its
\* synonyms as registered
PhrasesOf(symptom) ==
  {LowerSpell(symptom)}
    \cup {Spell(SynonymsOf(symptom)[k]) : k \in 1..Len(SynonymsOf(symptom))}

VocabularyPhrases == UNION {PhrasesOf(s) : s \in Vocabulary}

\* the first symptom in vocabulary order compared by phrase p
FirstCarrier(p) ==
  all_symptoms[CHOOSE n \in 1..Len(all_symptoms) :
     /\ p \in PhrasesOf(all_symptoms[n])
     /\ \A m \in 1..Len(all_symptoms) : p \in PhrasesOf(all_symptoms[m]) => n <= m]

\* what C8 says of a window range lo..hi: the loop builds exactly the windows
\* of lo..hi tokens of the filtered sequence; a vocabulary phrase of 2 to 4
\* words is recognized (built, and its first symptom added) exactly when its
\* words are adjacent in the filtered sequence; no phrase of 5 or more
\* tokens is built; every symptom taken from the text comes from a phrase of
\* at most 4 adjacent tokens.
WindowClaim(lo, hi) ==
  (Extracted /\ additional_text # <<>>) =>
    /\ words = ExpectedWords
    /\ phrases = Windows(ExpectedWords, lo, hi)
    /\ \A p \in VocabularyPhrases :
         /\ Len(p) \in 2..4 =>
              ((p \in phrases /\ FirstCarrier(p) \in text_symptoms)
                 <=> Occurs(p, ExpectedWords))
         /\ Len(p) >= 5 => p \notin phrases
    /\ \A s \in text_symptoms :
         \E p \in PhrasesOf(s) :
           Len(p) <= 4 /\ Occurs(p, ExpectedWords) /\ FirstCarrier(p) = s

default_top_n == 3
\* max_retry of diagnose, history and diagnosis_detail
max_retry == 3
history_max_retry == 3
detail_max_retry == 3

\* data/diseases.py: the diseases get_disease_info knows
diseases_data == {"flu", "cold"}

\* request.form.getlist('symptoms') and request.form.get('additional_symptoms', '')
FormSymptoms == {<<>>, <<"fever">>, <<"cough", "fever">>, <<"bogus">>}
FormTexts == {<<>>, <<"the">>, <<"runny", "noses">>}

\* list(processed_symptoms): the elements of the set in some order
ListsOf(set) ==
  {f \in [1..Cardinality(set) -> set] : \A i, j \in 1..Cardinality(set) : f[i] = f[j] => i = j}

\* a Python list as runs of one occurrence each
AsRuns(list) == [i \in 1..Len(list) |-> <<list[i], 1>>]

\* lines 71-79: the predictions get_disease_info has an entry for
WithInfo(predicted) ==
  LET Known(e) == e.disease \in diseases_data
  IN SelectSeq(predicted, Known)

BeginRequest(handler) ==
  /\ app_pc \in {"idle", "done"}
  /\ requests < MaxRequests
  /\ requests' = requests + 1
  /\ route' = handler
  /\ retry_count' = 0
  /\ attempts' = 0
  /\ commits' = 0
  /\ late_attempts' = 0
  /\ rows_before' = Len(db)
  /\ UNCHANGED <<db, next_id>>

\* diagnose, lines 46-87: up to the retry loop
DiagnoseBegin ==
  /\ BeginRequest("diagnose")
  /\ saved_to_db' = FALSE
  /\ detail_id' = 0
  /\ \E user_symptoms \in FormSymptoms, additional_symptoms \in FormTexts :
       IF user_symptoms = <<>> /\ additional_symptoms = <<>>
         THEN /\ response' = "redirect_index_warning"
              /\ app_pc' = "done"
              /\ processed_symptoms' = {}
              /\ predicted_diseases' = <<>>
              /\ diag_results' = <<>>
              /\ UNCHANGED session
         ELSE LET found == PreprocessSymptoms(user_symptoms, additional_symptoms)
              IN /\ processed_symptoms' = found
                 /\ IF found = {}
                      THEN /\ response' = "redirect_index_warning"
                           /\ app_pc' = "done"
                           /\ predicted_diseases' = <<>>
                           /\ diag_results' = <<>>
                           /\ UNCHANGED session
                      ELSE \E list \in ListsOf(found) :
                             LET predicted == PredictDisease(AsRuns(list), default_top_n)
                             IN /\ predicted_diseases' = predicted
                                /\ IF predicted = <<>>
                                     THEN /\ response' = "redirect_index_info"
                                          /\ app_pc' = "done"
                                          /\ diag_results' = <<>>
                                          /\ UNCHANGED session
                                     ELSE /\ diag_results' = WithInfo(predicted)
                                          /\ session' = [session EXCEPT
                                               !.has_results = TRUE,
                                               !.diagnosis_results = WithInfo(predicted)]
                                          /\ response' = "none"
                                          /\ app_pc' = "save"
  /\ UNCHANGED scoreVars
  /\ UNCHANGED extractVars

\* the loop condition of line 89
InSaveLoop ==
  /\ route = "diagnose"
  /\ app_pc = "save"
  /\ retry_count < max_retry
  /\ ~saved_to_db

\* the Diagnosis row of lines 92-111 with its DiagnosisResult rows
NewDiagnosis ==
  [id |-> next_id, symptoms |-> processed_symptoms, results |-> diag_results]

\* one more pass through the try block
CountAttempt ==
  /\ attempts' = attempts + 1
  /\ late_attempts' = IF commits > 0 THEN late_attempts + 1 ELSE late_attempts

\* lines 90-118 with no exception: flush, commit, the read of diagnosis.id
SaveSucceeds ==
  /\ InSaveLoop
  /\ CountAttempt
  /\ db' = Append(db, NewDiagnosis)
  /\ next_id' = next_id + 1
  /\ commits' = commits + 1
  /\ session' = [session EXCEPT !.diagnosis_id = next_id]
  /\ saved_to_db' = TRUE
  /\ UNCHANGED <<route, app_pc, response, processed_symptoms, predicted_diseases,
                 diag_results, retry_count, rows_before, detail_id, requests>>
  /\ UNCHANGED scoreVars
  /\ UNCHANGED extractVars

\* lines 120-131: db.session.rollback() is called inside the handler; when it
\* raises, the exception leaves the loop and reaches the except of line 135
AfterRollback(rollback_ok) ==
  IF rollback_ok
    THEN /\ response' = response
         /\ app_pc' = app_pc
    ELSE /\ response' = "redirect_index_error"
         /\ app_pc' = "done"

\* an exception at db.session.flush() (nothing sent) or at db.session.commit()
\* (the id was drawn from the sequence, the transaction is not committed)
SaveFails ==
  /\ InSaveLoop
  /\ CountAttempt
  /\ \E stage \in {"flush", "commit"} :
       next_id' = IF stage = "commit" THEN next_id + 1 ELSE next_id
  /\ retry_count' = retry_count + 1
  /\ \E rollback_ok \in BOOLEAN : AfterRollback(rollback_ok)
  /\ UNCHANGED <<route, processed_symptoms, predicted_diseases, diag_results,
                 saved_to_db, commits, db, rows_before, session, detail_id, requests>>
  /\ UNCHANGED scoreVars
  /\ UNCHANGED extractVars

\* the commit of line 113 succeeds and the read of diagnosis.id at line 114
\* raises: the session expires its objects on commit, so that read is a
\* SELECT, inside the try block; the row stays committed
SaveCommitsThenFails ==
  /\ InSaveLoop
  /\ CountAttempt
  /\ db' = Append(db, NewDiagnosis)
  /\ next_id' = next_id + 1
  /\ commits' = commits + 1
  /\ retry_count' = retry_count + 1
  /\ \E rollback_ok \in BOOLEAN : AfterRollback(rollback_ok)
  /\ UNCHANGED <<route, processed_symptoms, predicted_diseases, diag_results,
                 saved_to_db, rows_before, session, detail_id, requests>>
  /\ UNCHANGED scoreVars
  /\ UNCHANGED extractVars

\* line 133, once the loop condition is false
DiagnoseRender ==
  /\ route = "diagnose"
  /\ app_pc = "save"
  /\ ~(retry_count < max_retry /\ ~saved_to_db)
  /\ response' = "results"
  /\ app_pc' = "done"
  /\ UNCHANGED <<route, processed_symptoms, predicted_diseases, diag_results,
                 retry_count, saved_to_db, attempts, commits, late_attempts, db,
                 rows_before, next_id, session, detail_id, requests>>
  /\ UNCHANGED scoreVars
  /\ UNCHANGED extractVars

\* history and diagnosis_detail, up to their loops
ReadBegin ==
  /\ \E handler \in {"history", "detail"} :
       /\ BeginRequest(handler)
       /\ IF handler = "detail"
            THEN detail_id' \in 1..next_id
            ELSE detail_id' = 0
  /\ app_pc' = "read"
  /\ response' = "none"
  /\ UNCHANGED <<processed_symptoms, predicted_diseases, diag_results,
                 saved_to_db, session>>
  /\ UNCHANGED scoreVars
  /\ UNCHANGED extractVars

\* the queries of a read loop succeed; get_or_404 finds the row
ReadSucceeds ==
  /\ app_pc = "read"
  /\ \/ /\ route = "history"
        /\ retry_count < history_max_retry
        /\ response' = "history_page"
     \/ /\ route = "detail"
        /\ retry_count < detail_max_retry
        /\ \E i \in 1..Len(db) : db[i].id = detail_id
        /\ response' = "detail_page"
  /\ attempts' = attempts + 1
  /\ app_pc' = "done"
  /\ UNCHANGED <<route, processed_symptoms, predicted_diseases, diag_results,
                 retry_count, saved_to_db, commits, late_attempts, db, rows_before,
                 next_id, session, detail_id, requests>>
  /\ UNCHANGED scoreVars
  /\ UNCHANGED extractVars

\* a query raises, or get_or_404 raises NotFound, which except Exception
\* catches too; the last failure redirects
ReadFails ==
  /\ app_pc = "read"
  /\ \/ /\ route = "history"
        /\ retry_count < history_max_retry
        /\ IF retry_count + 1 >= history_max_retry
             THEN response' = "redirect_index" /\ app_pc' = "done"
             ELSE UNCHANGED <<response, app_pc>>
     \/ /\ route = "detail"
        /\ retry_count < detail_max_retry
        /\ IF retry_count + 1 >= detail_max_retry
             THEN response' = "redirect_history" /\ app_pc' = "done"
             ELSE UNCHANGED <<response, app_pc>>
  /\ attempts' = attempts + 1
  /\ retry_count' = retry_count + 1
  /\ UNCHANGED <<route, processed_symptoms, predicted_diseases, diag_results,
                 saved_to_db, commits, late_attempts, db, rows_before, next_id,
                 session, detail_id, requests>>
  /\ UNCHANGED scoreVars
  /\ UNCHANGED extractVars

AppNext ==
  \/ DiagnoseBegin
  \/ SaveSucceeds
  \/ SaveFails
  \/ SaveCommitsThenFails
  \/ DiagnoseRender
  \/ ReadBegin
  \/ ReadSucceeds
  \/ ReadFails

AppInit == AppIdle /\ ScoreIdle /\ ExtractIdle

SpecApp == AppInit /\ [][AppNext]_vars

(***************************************************************************)
(* Claims about the request handlers, checked under SpecApp.               *)
(***************************************************************************)
DiagnoseDone == route = "diagnose" /\ app_pc = "done"

\* C6: a diagnose request whose scoring gave a non-empty result ends with
\* the results page, whatever the save attempts and their rollbacks did.
C6_ResultsWhateverPersistence ==
  (DiagnoseDone /\ predicted_diseases # <<>>) => response = "results"

\* C9: the save loop makes at least one and at most 3 attempts and none
\* after a commit succeeded; the read loops make at most 3 attempts and end
\* in a page or a redirect.
C9_BoundedRetries ==
  /\ attempts <= 3
  /\ retry_count <= 3
  /\ (DiagnoseDone /\ predicted_diseases # <<>>) => attempts >= 1
  /\ late_attempts = 0
  /\ (route = "history" /\ app_pc = "done")
       => (attempts >= 1 /\ response \in {"history_page", "redirect_index"})
  /\ (route = "detail" /\ app_pc = "done")
       => (attempts >= 1 /\ response \in {"detail_page", "redirect_history"})

\* the committed row of id n
RowsWithId(n) == {i \in 1..Len(db) : db[i].id = n}

\* C10: a diagnose request that rendered its results left exactly one new Diagnosis with one
\* DiagnosisResult per rendered result, or no new row; the session's
\* diagnosis_id is the id of a committed row, and when the session holds
\* both diagnosis_id and diagnosis_results they are those of one diagnosis.
C10_AllOrNothing ==
  /\ (DiagnoseDone /\ response = "results") =>
       /\ Len(db) - rows_before \in {0, 1}
       /\ Len(db) = rows_before + 1 => db[Len(db)].results = diag_results
       /\ (session.diagnosis_id # 0 /\ session.has_results) =>
            \A i \in RowsWithId(session.diagnosis_id) :
              db[i].results = session.diagnosis_results
  /\ session.diagnosis_id # 0 => RowsWithId(session.diagnosis_id) # {}

====
